---- MODULE Spec2Model ----
(***************************************************************************)
(* The price list view of coinmarketcap-prices: the React component        *)
(* Command (its state, its mount effect with the 30 second interval, the   *)
(* async loadPrices refresh cycle, the selection effect) and the pure      *)
(* formatting helper formatPercentageChange / padToFixedWidth.             *)
(*                                                                         *)
(* JavaScript runs each handler to completion, so every action below is    *)
(* one synchronous stretch of code: loadPrices up to its await, loadPrices *)
(* from the await to the end of its finally block, the effect body, the    *)
(* search-text callback.  React re-renders after a handler and runs the    *)
(* selection effect before any other handler, so the effect is part of the *)
(* action that changed the state.  Teardown runs the mount effect's        *)
(* cleanup, which is all the code does then: fetches in flight still       *)
(* complete and run the rest of loadPrices, and the state variables then   *)
(* hold what its setter calls pass, although nothing is rendered any more. *)
(***************************************************************************)
EXTENDS Integers, Sequences, FiniteSets, TLC

VARIABLES
    isLoading,            \* useState(true)
    prices,               \* useState<CryptoPrice[]>([])
    searchText,           \* useState("")
    selectedCrypto,       \* useState<CryptoPrice | null>(null)
    dataSource,           \* preference, captured by the mount effect's closure
    coinmarketcapApiKey,  \* preference, captured by the mount effect's closure
    phase,                \* "rendered" (before the mount effect), "mounted", "unmounted"
    intervalId,           \* TRUE while the setInterval timer exists
    ticks,                \* how many times the interval callback has run
    nStarted,             \* how many times loadPrices has been called
    pc,                   \* per refresh cycle: where its loadPrices call is
    fetcherOf,            \* per refresh cycle: the fetcher its command was built with
    toasts,               \* the showToast calls loadPrices made in the most recent step
    lastResponse,         \* the cycle and value of the latest getPrices promise to resolve
    replaced,             \* the cycle and value of the response before that one
    lastError,            \* the cycle and value of the latest getPrices promise to reject
    fmtIn,                \* formatPercentageChange: its arguments
    fmtOut                \* formatPercentageChange: its result ("" before the call)

vars == <<isLoading, prices, searchText, selectedCrypto, dataSource,
          coinmarketcapApiKey, phase, intervalId, ticks, nStarted, pc,
          fetcherOf, toasts, lastResponse, replaced, lastError, fmtIn, fmtOut>>

viewVars == <<isLoading, prices, searchText, selectedCrypto, dataSource,
              coinmarketcapApiKey, phase, intervalId, ticks, nStarted, pc,
              fetcherOf, toasts, lastResponse, replaced, lastError>>

fmtVars == <<fmtIn, fmtOut>>

(***************************************************************************)
(* Bounds.                                                                 *)
(***************************************************************************)
\* Refresh cycles per run: the mount's initial load plus MaxCycles - 1 ticks.
MaxCycles == 3

\* formatPercentageChange is tried on magnitudes around 10^e for e up to MaxExp.
MaxExp == 5

Cycles == 1..MaxCycles

(***************************************************************************)
(* Data: quotes, result lists, search texts, preferences, errors.          *)
(* Symbols, names and search texts are sequences of characters, so that    *)
(* the substring match and the case folding are computed.                  *)
(***************************************************************************)
\* selectedCrypto = null
Null == [symbol |-> <<>>, name |-> <<>>, price |-> "null"]

BTC == [symbol |-> <<"B", "T", "C">>, name |-> <<"B", "i", "t">>, price |-> "100"]
ETH == [symbol |-> <<"E", "T", "H">>, name |-> <<"E", "t", "h">>, price |-> "20"]

\* What one getPrices call can resolve with.
ResultLists == {<<>>, <<BTC, ETH>>, <<ETH>>}

SearchTexts == {<<>>, <<"b", "t">>}

Undefined == "<undefined>"

DataSources == {"binance", "coinmarketcap", "kraken"}

ApiKeys == {Undefined, "", "key-1"}

\* What the awaited call can reject with: an Error, or a value that is not one.
Errors ==
    { [isError |-> TRUE, kind |-> "Error", text |-> "Network Error", num |-> 0],
      [isError |-> FALSE, kind |-> "number", text |-> "", num |-> 503] }

(***************************************************************************)
(* Strings.                                                                *)
(***************************************************************************)
Digit == <<"0", "1", "2", "3", "4", "5", "6", "7", "8", "9">>

RECURSIVE IntToStr(_)
\* The decimal digits of a natural number.
IntToStr(n) ==
    IF n < 10 THEN Digit[n + 1] ELSE IntToStr(n \div 10) \o Digit[(n % 10) + 1]

RECURSIVE Spaces(_)
\* ' '.repeat(n)
Spaces(n) == IF n <= 0 THEN "" ELSE " " \o Spaces(n - 1)

\* String(error) for the values of Errors that are not Error objects.
StringOf(e) ==
    CASE e.kind = "number" -> IntToStr(e.num)
      [] OTHER -> e.text

Lower ==
    [c \in {"B", "T", "C", "E", "H", "b", "t", "c", "e", "h", "i"} |->
        CASE c = "B" -> "b" [] c = "T" -> "t" [] c = "C" -> "c"
          [] c = "E" -> "e" [] c = "H" -> "h" [] OTHER -> c]

\* toLowerCase()
toLowerCase(s) == [i \in 1..Len(s) |-> Lower[s[i]]]

\* haystack.includes(needle)
includes(haystack, needle) ==
    \E i \in 0..(Len(haystack) - Len(needle)) :
        \A j \in 1..Len(needle) : haystack[i + j] = needle[j]

(***************************************************************************)
(* formatPercentageChange.  A change is NaN or a multiple of 1/8: every    *)
(* such number is exactly a double, so toFixed(2), which rounds the exact  *)
(* value of the double and takes the larger candidate on a tie, is         *)
(* integer arithmetic on the count of eighths.                             *)
(***************************************************************************)
RECURSIVE Pow10(_)
Pow10(e) == IF e = 0 THEN 1 ELSE 10 * Pow10(e - 1)

\* The magnitudes tried, in eighths: 0, 1/8, and around each power of ten.
FmtMagnitudes ==
    {0, 1, 20} \cup
    UNION {{8 * Pow10(e) - 1, 8 * Pow10(e), 8 * Pow10(e) + 1, 40 * Pow10(e)} :
              e \in 0..MaxExp}

FmtInputs ==
    {[nan |-> TRUE, eighths |-> 0, isPositive |-> p] : p \in BOOLEAN} \cup
    {[nan |-> FALSE, eighths |-> s * m, isPositive |-> p] :
        s \in {-1, 1}, m \in FmtMagnitudes, p \in BOOLEAN}

\* change.toFixed(2)
toFixed2(change) ==
    IF change.nan THEN "NaN"
    ELSE LET negative == change.eighths < 0
             m == IF negative THEN -change.eighths ELSE change.eighths
             n == (25 * m + 1) \div 2
         IN (IF negative THEN "-" ELSE "")
            \o IntToStr(n \div 100) \o "."
            \o Digit[((n % 100) \div 10) + 1] \o Digit[(n % 10) + 1]

\* padToFixedWidth with the halves of the padding swapped.
padToFixedWidthLeftHeavy(value, width) ==
    IF Len(value) >= width THEN value
    ELSE LET spacesToAdd == width - Len(value)
             rightPad == spacesToAdd \div 2
             leftPad == spacesToAdd - rightPad
         IN Spaces(leftPad) \o value \o Spaces(rightPad)

\* padToFixedWidth(value, width)
padToFixedWidth(value, width) ==
    IF Len(value) >= width THEN value
    ELSE LET spacesToAdd == width - Len(value)
             leftPad == spacesToAdd \div 2
             rightPad == spacesToAdd - leftPad
         IN Spaces(leftPad) \o value \o Spaces(rightPad)

\* The width formatPercentageChange pads to.
PercentWidth == 10

\* formatPercentageChange(change, isPositive)
formatPercentageChange(change, isPositive) ==
    LET formattedValue == IF isPositive
                          THEN "+" \o toFixed2(change) \o "%"
                          ELSE toFixed2(change) \o "%"
    IN padToFixedWidth(formattedValue, PercentWidth)

(***************************************************************************)
(* The command layer's filter and the derived render values.               *)
(***************************************************************************)
RECURSIVE filterPrices(_, _)
\* The quotes whose symbol or name contains the search text, case folded,
\* in the order of the list; the whole list for the empty text.
filterPrices(quotes, text) ==
    IF quotes = <<>> THEN <<>>
    ELSE LET q == Head(quotes)
             rest == filterPrices(Tail(quotes), text)
             hit == \/ includes(toLowerCase(q.symbol), toLowerCase(text))
                    \/ includes(toLowerCase(q.name), toLowerCase(text))
         IN IF hit THEN <<q>> \o rest ELSE rest

\* const filteredPrices = command.filterPrices(prices, searchText)
filteredPrices == filterPrices(prices, searchText)

\* filteredPrices.length === 0 && !isLoading: List.EmptyView is rendered
EmptyViewShown == Len(filteredPrices) = 0 /\ ~isLoading

\* The selection effect without its !selectedCrypto test.
SelectionEffectFollowsList(filtered, selected) ==
    IF Len(filtered) > 0 THEN filtered[1] ELSE selected

\* The selection after the effect that follows a render with this filtered list.
SelectionEffect(filtered, selected) ==
    IF Len(filtered) > 0 /\ selected = Null THEN filtered[1] ELSE selected

(***************************************************************************)
(* Fetcher selection.                                                      *)
(***************************************************************************)
KeyMissingToast ==
    [title |-> "CoinMarketCap API Key Missing",
     message |-> "Please add your API key in extension preferences"]

NoPricesToast ==
    [title |-> "No Prices Found",
     message |-> "Please check your tickers or API key"]

ErrorToast(error) ==
    [title |-> "Error Loading Prices",
     message |-> IF error.isError THEN error.text ELSE StringOf(error)]

NoFetcher == [kind |-> "none", apiKey |-> Undefined]

\* !coinmarketcapApiKey
KeyIsFalsy == coinmarketcapApiKey \in {Undefined, ""}

\* getPriceFetcher without its test of the key.
getPriceFetcherUnchecked ==
    IF dataSource = "coinmarketcap"
    THEN [fetcher |-> [kind |-> "CoinMarketCap", apiKey |-> coinmarketcapApiKey],
          shown |-> <<>>]
    ELSE [fetcher |-> [kind |-> "Binance", apiKey |-> Undefined],
          shown |-> <<>>]

\* The fetcher built, and the toasts shown while choosing it.
getPriceFetcher ==
    IF dataSource = "coinmarketcap"
    THEN IF KeyIsFalsy
         THEN [fetcher |-> [kind |-> "Binance", apiKey |-> Undefined],
               shown |-> <<KeyMissingToast>>]
         ELSE [fetcher |-> [kind |-> "CoinMarketCap", apiKey |-> coinmarketcapApiKey],
               shown |-> <<>>]
    ELSE [fetcher |-> [kind |-> "Binance", apiKey |-> Undefined],
          shown |-> <<>>]

(***************************************************************************)
(* loadPrices: from the call to the await, and from the await to the end.  *)
(***************************************************************************)
Outstanding == {c \in Cycles : pc[c] = "awaiting"}

\* loadPrices(): setIsLoading(true), choose the fetcher, call getPrices.
loadPrices ==
    LET c == nStarted + 1
        chosen == getPriceFetcher
    IN /\ nStarted' = c
       /\ isLoading' = TRUE
       /\ fetcherOf' = [fetcherOf EXCEPT ![c] = chosen.fetcher]
       /\ toasts' = chosen.shown
       /\ pc' = [pc EXCEPT ![c] = "awaiting"]
       /\ UNCHANGED <<prices, searchText, selectedCrypto, lastResponse, replaced,
                      lastError>>

\* loadPrices keeping the old list when the result is empty.
loadPricesResolvedKeepsOnEmpty(c, results) ==
    /\ pc[c] = "awaiting"
    /\ pc' = [pc EXCEPT ![c] = "resolved"]
    /\ lastResponse' = [cycle |-> c, result |-> results]
    /\ replaced' = lastResponse
    /\ toasts' = IF Len(results) = 0 THEN <<NoPricesToast>> ELSE <<>>
    /\ prices' = IF Len(results) = 0 THEN prices ELSE results
    /\ isLoading' = FALSE
    /\ selectedCrypto' = SelectionEffect(filterPrices(prices', searchText), selectedCrypto)
    /\ UNCHANGED <<searchText, dataSource, coinmarketcapApiKey, phase, intervalId,
                   ticks, nStarted, fetcherOf, lastError, fmtVars>>

\* loadPrices treating an empty result as an error.
loadPricesResolvedEmptyIsError(c, results) ==
    /\ pc[c] = "awaiting"
    /\ pc' = [pc EXCEPT ![c] = "resolved"]
    /\ lastResponse' = [cycle |-> c, result |-> results]
    /\ replaced' = lastResponse
    /\ toasts' = IF Len(results) = 0
                 THEN <<[title |-> "Error Loading Prices",
                         message |-> "No Prices Found"]>>
                 ELSE <<>>
    /\ prices' = results
    /\ isLoading' = FALSE
    /\ selectedCrypto' = SelectionEffect(filterPrices(results, searchText), selectedCrypto)
    /\ UNCHANGED <<searchText, dataSource, coinmarketcapApiKey, phase, intervalId,
                   ticks, nStarted, fetcherOf, lastError, fmtVars>>

\* loadPrices discarding the result of a cycle older than the one displayed.
loadPricesResolvedDiscardsStale(c, results) ==
    /\ pc[c] = "awaiting"
    /\ pc' = [pc EXCEPT ![c] = "resolved"]
    /\ lastResponse' = [cycle |-> c, result |-> results]
    /\ replaced' = lastResponse
    /\ toasts' = IF Len(results) = 0 THEN <<NoPricesToast>> ELSE <<>>
    /\ prices' = IF c > lastResponse.cycle THEN results ELSE prices
    /\ isLoading' = FALSE
    /\ selectedCrypto' = SelectionEffect(filterPrices(prices', searchText), selectedCrypto)
    /\ UNCHANGED <<searchText, dataSource, coinmarketcapApiKey, phase, intervalId,
                   ticks, nStarted, fetcherOf, lastError, fmtVars>>

\* loadPrices with the loading flag kept up while another fetch is in flight.
loadPricesResolvedCountsFetches(c, results) ==
    /\ pc[c] = "awaiting"
    /\ pc' = [pc EXCEPT ![c] = "resolved"]
    /\ lastResponse' = [cycle |-> c, result |-> results]
    /\ replaced' = lastResponse
    /\ toasts' = IF Len(results) = 0 THEN <<NoPricesToast>> ELSE <<>>
    /\ prices' = results
    /\ isLoading' = (Outstanding \ {c} # {})
    /\ selectedCrypto' = SelectionEffect(filterPrices(results, searchText), selectedCrypto)
    /\ UNCHANGED <<searchText, dataSource, coinmarketcapApiKey, phase, intervalId,
                   ticks, nStarted, fetcherOf, lastError, fmtVars>>

\* The awaited getPrices of cycle c resolved with results.
loadPricesResolved(c, results) ==
    /\ pc[c] = "awaiting"
    /\ pc' = [pc EXCEPT ![c] = "resolved"]
    /\ lastResponse' = [cycle |-> c, result |-> results]
    /\ replaced' = lastResponse
    /\ toasts' = IF Len(results) = 0 THEN <<NoPricesToast>> ELSE <<>>
    /\ prices' = results
    /\ isLoading' = FALSE
    /\ selectedCrypto' = SelectionEffect(filterPrices(results, searchText), selectedCrypto)
    /\ UNCHANGED <<searchText, dataSource, coinmarketcapApiKey, phase, intervalId,
                   ticks, nStarted, fetcherOf, lastError, fmtVars>>

\* loadPrices with setIsLoading(false) at the end of the try block, not in a finally.
loadPricesRejectedNoFinally(c, error) ==
    /\ pc[c] = "awaiting"
    /\ pc' = [pc EXCEPT ![c] = "rejected"]
    /\ lastError' = [cycle |-> c, error |-> error]
    /\ toasts' = <<ErrorToast(error)>>
    /\ UNCHANGED <<isLoading, selectedCrypto, prices, searchText, dataSource,
                   coinmarketcapApiKey, phase, intervalId, ticks, nStarted,
                   fetcherOf, lastResponse, replaced, fmtVars>>

\* loadPrices with the list emptied in the catch block.
loadPricesRejectedClearsList(c, error) ==
    /\ pc[c] = "awaiting"
    /\ pc' = [pc EXCEPT ![c] = "rejected"]
    /\ lastError' = [cycle |-> c, error |-> error]
    /\ toasts' = <<ErrorToast(error)>>
    /\ prices' = <<>>
    /\ isLoading' = FALSE
    /\ selectedCrypto' = SelectionEffect(filterPrices(<<>>, searchText), selectedCrypto)
    /\ UNCHANGED <<searchText, dataSource, coinmarketcapApiKey, phase,
                   intervalId, ticks, nStarted, fetcherOf, lastResponse, replaced,
                   fmtVars>>

\* The awaited getPrices of cycle c rejected with error.
loadPricesRejected(c, error) ==
    /\ pc[c] = "awaiting"
    /\ pc' = [pc EXCEPT ![c] = "rejected"]
    /\ lastError' = [cycle |-> c, error |-> error]
    /\ toasts' = <<ErrorToast(error)>>
    /\ isLoading' = FALSE
    /\ selectedCrypto' = SelectionEffect(filteredPrices, selectedCrypto)
    /\ UNCHANGED <<prices, searchText, dataSource, coinmarketcapApiKey, phase,
                   intervalId, ticks, nStarted, fetcherOf, lastResponse, replaced,
                   fmtVars>>

(***************************************************************************)
(* The component: mount effect, interval callback, cleanup, search bar.    *)
(***************************************************************************)
\* useEffect(..., []): the initial load, then setInterval.
Mount ==
    /\ phase = "rendered"
    /\ phase' = "mounted"
    /\ loadPrices
    /\ intervalId' = TRUE
    /\ UNCHANGED <<dataSource, coinmarketcapApiKey, ticks, fmtVars>>

\* The interval callback skipping its load while a fetch is in flight.
TickSkipsWhileFetching ==
    /\ intervalId
    /\ ticks < MaxCycles - 1
    /\ ticks' = ticks + 1
    /\ IF Outstanding # {}
       THEN UNCHANGED <<isLoading, prices, searchText, selectedCrypto, nStarted, pc,
                        fetcherOf, toasts, lastResponse, replaced, lastError>>
       ELSE loadPrices
    /\ UNCHANGED <<dataSource, coinmarketcapApiKey, phase, intervalId, fmtVars>>

\* The interval callback.
Tick ==
    /\ intervalId
    /\ ticks < MaxCycles - 1
    /\ ticks' = ticks + 1
    /\ loadPrices
    /\ UNCHANGED <<dataSource, coinmarketcapApiKey, phase, intervalId, fmtVars>>

\* The mount effect's cleanup: clearInterval(intervalId).
Unmount ==
    /\ phase = "mounted"
    /\ phase' = "unmounted"
    /\ intervalId' = FALSE
    /\ UNCHANGED <<isLoading, prices, searchText, selectedCrypto, dataSource,
                   coinmarketcapApiKey, ticks, nStarted, pc, fetcherOf, toasts,
                   lastResponse, replaced, lastError, fmtVars>>

\* onSearchTextChange={setSearchText}
SetSearchText(text) ==
    /\ phase = "mounted"
    /\ text # searchText
    /\ searchText' = text
    /\ selectedCrypto' = SelectionEffect(filterPrices(prices, text), selectedCrypto)
    /\ UNCHANGED <<isLoading, prices, dataSource, coinmarketcapApiKey, phase,
                   intervalId, ticks, nStarted, pc, fetcherOf, toasts,
                   lastResponse, replaced, lastError, fmtVars>>

Resolve == \E c \in Cycles : \E results \in ResultLists : loadPricesResolved(c, results)

Reject == \E c \in Cycles : \E error \in Errors : loadPricesRejected(c, error)

Search == \E text \in SearchTexts : SetSearchText(text)

\* No getPrices promise has resolved, or rejected, yet.
NoResponse == [cycle |-> 0, result |-> <<>>]

NoError == [cycle |-> 0, error |-> [isError |-> FALSE, kind |-> "none", text |-> "", num |-> 0]]

\* The arguments formatPercentageChange has before any call of the view.
NoFmtIn == [nan |-> FALSE, eighths |-> 0, isPositive |-> TRUE]

Init ==
    /\ isLoading = TRUE
    /\ prices = <<>>
    /\ searchText = <<>>
    /\ selectedCrypto = Null
    /\ dataSource \in DataSources
    /\ coinmarketcapApiKey \in ApiKeys
    /\ phase = "rendered"
    /\ intervalId = FALSE
    /\ ticks = 0
    /\ nStarted = 0
    /\ pc = [c \in Cycles |-> "unstarted"]
    /\ fetcherOf = [c \in Cycles |-> NoFetcher]
    /\ toasts = <<>>
    /\ lastResponse = NoResponse
    /\ replaced = NoResponse
    /\ lastError = NoError
    /\ fmtIn = NoFmtIn
    /\ fmtOut = ""

Next == Mount \/ Tick \/ Resolve \/ Reject \/ Search \/ Unmount

Spec == Init /\ [][Next]_vars

(***************************************************************************)
(* formatPercentageChange on its own: one call on arguments drawn from     *)
(* FmtInputs, in a view that is never mounted.                             *)
(***************************************************************************)
FmtInit ==
    /\ isLoading = TRUE
    /\ prices = <<>>
    /\ searchText = <<>>
    /\ selectedCrypto = Null
    /\ dataSource = "binance"
    /\ coinmarketcapApiKey = Undefined
    /\ phase = "rendered"
    /\ intervalId = FALSE
    /\ ticks = 0
    /\ nStarted = 0
    /\ pc = [c \in Cycles |-> "unstarted"]
    /\ fetcherOf = [c \in Cycles |-> NoFetcher]
    /\ toasts = <<>>
    /\ lastResponse = NoResponse
    /\ replaced = NoResponse
    /\ lastError = NoError
    /\ fmtIn \in FmtInputs
    /\ fmtOut = ""

Format ==
    /\ fmtOut = ""
    /\ fmtOut' = formatPercentageChange(fmtIn, fmtIn.isPositive)
    /\ UNCHANGED <<viewVars, fmtIn>>

FmtNext == Format

FmtSpec == FmtInit /\ [][FmtNext]_vars

(***************************************************************************)
(* The view under the scheduling the runtime guarantees: the mount effect  *)
(* runs after the first render, and every fetch in flight settles (the     *)
(* premise of the termination claim).  No fairness on the timer, the       *)
(* search bar or teardown.  The preferences only choose the fetcher and    *)
(* its warning, so one pair of each kind is taken.                         *)
(***************************************************************************)
Settle(c) ==
    \/ \E results \in ResultLists : loadPricesResolved(c, results)
    \/ \E error \in Errors : loadPricesRejected(c, error)

\* One pair of preferences for each outcome of getPriceFetcher.
FairPreferences ==
    {<<"binance", Undefined>>, <<"coinmarketcap", "">>, <<"coinmarketcap", "key-1">>}

FairInit == Init /\ <<dataSource, coinmarketcapApiKey>> \in FairPreferences

FairSpec ==
    /\ FairInit
    /\ [][Next]_vars
    /\ WF_vars(Mount)
    /\ \A c \in Cycles : WF_vars(Settle(c))

(***************************************************************************)
(* Steps of a refresh cycle, as the claims name them.                      *)
(***************************************************************************)
Starts(c) == pc[c] = "unstarted" /\ pc'[c] = "awaiting"

Resolves(c) == pc[c] = "awaiting" /\ pc'[c] = "resolved"

Rejects(c) == pc[c] = "awaiting" /\ pc'[c] = "rejected"

Symbols(quotes) == {quotes[i].symbol : i \in 1..Len(quotes)}

(***************************************************************************)
(* C1.  Every refresh cycle that is awaiting its getPrices call comes to   *)
(* its end, resolved or rejected, with the loading flag set to false, given *)
(* that every fetch in flight settles: no cycle leaves the view loading    *)
(* for ever.                                                               *)
(***************************************************************************)
C1_EveryCycleClearsLoading ==
    \A c \in Cycles :
        (pc[c] = "awaiting") ~> (pc[c] \in {"resolved", "rejected"} /\ ~isLoading)

\* Both outcomes have happened, nothing is in flight, and the view is idle.
C1_Witness ==
    /\ \E c, d \in Cycles : pc[c] = "rejected" /\ pc[d] = "resolved"
    /\ Outstanding = {}
    /\ ~isLoading

(***************************************************************************)
(* C2.  The step in which a cycle's getPrices resolves with a list makes   *)
(* the quote list exactly that list, whatever the list was before, the     *)
(* empty list included.                                                    *)
(***************************************************************************)
C2_ResolveReplacesList ==
    [][\A c \in Cycles :
          Resolves(c) => /\ lastResponse'.cycle = c
                         /\ prices' = lastResponse'.result]_vars

\* An empty result has replaced a list that held quotes.
C2_Witness ==
    /\ lastResponse.cycle # 0
    /\ lastResponse.result = <<>>
    /\ replaced.result # <<>>
    /\ prices = <<>>

(***************************************************************************)
(* C3.  The step in which a cycle resolves with an empty list shows        *)
(* exactly the 'No Prices Found' toast and no error toast, and leaves the  *)
(* view idle with the empty-state placeholder; resolving with a non-empty  *)
(* list shows no toast; the step that starts a cycle never shows           *)
(* 'No Prices Found'.                                                      *)
(***************************************************************************)
C3_EmptyResultNotifiesOnce ==
    [][\A c \in Cycles :
          /\ Resolves(c) =>
                IF lastResponse'.result = <<>>
                THEN toasts' = <<NoPricesToast>> /\ EmptyViewShown'
                ELSE toasts' = <<>>
          /\ Starts(c) =>
                \A i \in 1..Len(toasts') : toasts'[i].title # "No Prices Found"]_vars

\* An empty result has just been notified and the placeholder is shown.
C3_Witness ==
    /\ lastResponse.cycle # 0
    /\ lastResponse.result = <<>>
    /\ toasts = <<NoPricesToast>>
    /\ EmptyViewShown

(***************************************************************************)
(* C4.  Every cycle chooses its fetcher anew from the two preferences:     *)
(* 'coinmarketcap' with a non-empty key gives the aggregator fetcher with  *)
(* that key and no warning; 'coinmarketcap' with a missing or empty key    *)
(* gives the exchange fetcher and the 'API Key Missing' warning; any other *)
(* data source gives the exchange fetcher and no warning.  An aggregator   *)
(* fetcher never has a missing or empty key.                               *)
(***************************************************************************)
C4_FetcherSelection ==
    [][\A c \in Cycles :
          Starts(c) =>
            /\ (dataSource = "coinmarketcap" /\ coinmarketcapApiKey \notin {Undefined, ""})
                  => /\ fetcherOf'[c] = [kind |-> "CoinMarketCap",
                                         apiKey |-> coinmarketcapApiKey]
                     /\ toasts' = <<>>
            /\ (dataSource = "coinmarketcap" /\ coinmarketcapApiKey \in {Undefined, ""})
                  => /\ fetcherOf'[c].kind = "Binance"
                     /\ Len(toasts') = 1
                     /\ toasts'[1].title = "CoinMarketCap API Key Missing"
            /\ dataSource # "coinmarketcap"
                  => /\ fetcherOf'[c].kind = "Binance"
                     /\ toasts' = <<>>
            /\ fetcherOf'[c].kind = "CoinMarketCap"
                  => fetcherOf'[c].apiKey \notin {Undefined, ""}]_vars

\* A second cycle has fallen back to the exchange fetcher with the warning.
C4_Witness ==
    /\ dataSource = "coinmarketcap"
    /\ coinmarketcapApiKey = ""
    /\ nStarted >= 2
    /\ fetcherOf[nStarted].kind = "Binance"
    /\ pc[nStarted] = "awaiting"
    /\ toasts = <<KeyMissingToast>>

(***************************************************************************)
(* C5.  The step in which a cycle's getPrices rejects ends the cycle       *)
(* inside loadPrices, shows exactly one 'Error Loading Prices' toast whose *)
(* message is the Error's message, or the value as a string when it is not *)
(* an Error, and leaves the quote list and the selection as they were.     *)
(***************************************************************************)
C5_RejectionIsCaught ==
    [][\A c \in Cycles :
          Rejects(c) =>
            /\ lastError'.cycle = c
            /\ Len(toasts') = 1
            /\ toasts'[1].title = "Error Loading Prices"
            /\ lastError'.error.kind = "Error" => toasts'[1].message = "Network Error"
            /\ lastError'.error.kind = "number" => toasts'[1].message = "503"
            /\ prices' = prices
            /\ selectedCrypto' = selectedCrypto]_vars

\* A value that is no Error was reported while a list and a selection were held.
C5_Witness ==
    /\ lastError.cycle # 0
    /\ toasts = <<[title |-> "Error Loading Prices", message |-> "503"]>>
    /\ prices # <<>>
    /\ selectedCrypto # Null

\* The text formatPercentageChange pads: the sign, change.toFixed(2), '%'.
FmtText == (IF fmtIn.isPositive THEN "+" ELSE "") \o toFixed2(fmtIn) \o "%"

(***************************************************************************)
(* C6.  formatPercentageChange returns the signed two-decimal text padded  *)
(* with spaces to 10 characters and centred, floor(padding / 2) on the     *)
(* left and the rest on the right, when that text has at most 10           *)
(* characters; a longer text is returned as it is, longer than 10          *)
(* characters.  formatPercentageChange(5, true) is "  +5.00%  ".           *)
(***************************************************************************)
C6_PaddedToTenWhenShort ==
    fmtOut # "" =>
        LET n == Len(FmtText)
            left == (10 - n) \div 2
            right == (10 - n) - left
        IN /\ n <= 10 => /\ fmtOut = Spaces(left) \o FmtText \o Spaces(right)
                         /\ Len(fmtOut) = 10
                         /\ right - left \in {0, 1}
           /\ n > 10 => fmtOut = FmtText /\ Len(fmtOut) > 10
           /\ fmtIn = [nan |-> FALSE, eighths |-> 40, isPositive |-> TRUE]
                 => fmtOut = "  +5.00%  "
           /\ fmtIn = [nan |-> FALSE, eighths |-> -20, isPositive |-> FALSE]
                 => fmtOut = "  -2.50%  "
           /\ fmtIn = [nan |-> FALSE, eighths |-> 1, isPositive |-> TRUE]
                 => fmtOut = "  +0.13%  "
           /\ fmtIn = [nan |-> FALSE, eighths |-> 80, isPositive |-> TRUE]
                 => fmtOut = " +10.00%  "
           /\ fmtIn = [nan |-> TRUE, eighths |-> 0, isPositive |-> FALSE]
                 => fmtOut = "   NaN%   "

\* formatPercentageChange(5, true) has been computed.
C6_Witness ==
    /\ fmtIn = [nan |-> FALSE, eighths |-> 40, isPositive |-> TRUE]
    /\ fmtOut = "  +5.00%  "

\* C6 as stated: the result has exactly 10 characters for every change and flag.
C6_AlwaysTenCharacters == fmtOut # "" => Len(fmtOut) = 10

(***************************************************************************)
(* C7.  The quote list is always the list of the response that arrived     *)
(* last, whichever cycle it belongs to: responses are applied in the order *)
(* they arrive, not the order their cycles started.                        *)
(***************************************************************************)
C7_DisplayedIsLatestArrival ==
    lastResponse.cycle # 0 => prices = lastResponse.result

\* The list of an earlier cycle has replaced the different list of a later one.
C7_Witness ==
    /\ lastResponse.cycle # 0
    /\ replaced.cycle > lastResponse.cycle
    /\ replaced.result # lastResponse.result
    /\ prices = lastResponse.result

(***************************************************************************)
(* C8.  The selection is null as long as the filtered list has been empty; *)
(* it leaves null only to become the first element of the filtered list;   *)
(* once it is not null no step changes it.                                 *)
(***************************************************************************)
C8_SelectionSetOnce ==
    [][/\ selectedCrypto # Null => selectedCrypto' = selectedCrypto
       /\ (selectedCrypto = Null /\ selectedCrypto' # Null)
             => selectedCrypto' = filteredPrices'[1]
       /\ selectedCrypto' = Null => filteredPrices' = <<>>]_vars

\* The selected quote's symbol is absent from a list that holds quotes.
C8_Witness ==
    /\ selectedCrypto # Null
    /\ prices # <<>>
    /\ selectedCrypto.symbol \notin Symbols(prices)

(***************************************************************************)
(* C9.  The timer exists exactly while the view is mounted; it is created  *)
(* by the mount effect alone; every run of its callback starts a refresh   *)
(* cycle, fetches in flight or not; after teardown no cycle is started.    *)
(***************************************************************************)
C9_TimerIsUnconditional ==
    /\ [](intervalId <=> phase = "mounted")
    /\ [](phase # "rendered" => nStarted = ticks + 1)
    /\ [][/\ (~intervalId /\ intervalId') => phase = "rendered"
          /\ phase = "unmounted" => nStarted' = nStarted /\ phase' = "unmounted"]_vars

\* A tick has started a cycle while an earlier fetch was still in flight.
C9_Witness == ticks >= 1 /\ Cardinality(Outstanding) >= 2

(***************************************************************************)
(* C10.  The loading flag is the last write to one boolean: the step that  *)
(* starts a cycle sets it, the step that ends a cycle clears it, whatever  *)
(* other fetches are in flight.                                            *)
(***************************************************************************)
C10_LoadingIsOneBoolean ==
    [][\A c \in Cycles :
          /\ Starts(c) => isLoading'
          /\ (Resolves(c) \/ Rejects(c)) => ~isLoading']_vars

\* The view is idle and shows the placeholder while a fetch is in flight.
C10_Witness == ~isLoading /\ Outstanding # {} /\ EmptyViewShown

====
